---------------------------- MODULE Spec2Model ----------------------------
(***************************************************************************)
(* The Sharpe-ratio notebook (3_Sharp_ratio/Sharp ratio), cell by cell.    *)
(*                                                                         *)
(* Python floats are modelled as decimal fixed-point numbers with six      *)
(* fractional digits (an integer x stands for x / SCALE), truncated toward *)
(* zero, together with the three IEEE special values NaN, +Inf and -Inf.   *)
(* Comparisons with NaN are false and division by zero yields +-Inf or NaN *)
(* as numpy/pandas float division does (no exception is raised).           *)
(***************************************************************************)
EXTENDS Integers, Sequences, FiniteSets, TLC

-----------------------------------------------------------------------------
(* Sizes of the explored inputs *)

\* The provider's price table has 1..MaxRows dated rows.
MaxRows == 3
\* The last ^IRX close is a whole percentage in 0..MaxClose.
MaxClose == 3
\* The display cells are also run on Sharpe ratios k/2 for k in -1..MaxHalf.
MaxHalf == 7

-----------------------------------------------------------------------------
(* Float arithmetic *)

SCALE == 1000 * 1000
ONE == SCALE
PosInf == 2100 * SCALE
NegInf == 0 - PosInf
NaN == PosInf + 7

IsNaN(x) == x = NaN
Finite(x) == x > NegInf /\ x < PosInf
Abs(x) == IF x < 0 THEN 0 - x ELSE x
Sgn(x) == IF x < 0 THEN 0 - 1 ELSE IF x > 0 THEN 1 ELSE 0

\* float(n) of a small integer n
FromInt(n) == n * SCALE

\* a > b, a < b on floats: false as soon as one side is NaN
FGt(a, b) == ~IsNaN(a) /\ ~IsNaN(b) /\ a > b
FLt(a, b) == ~IsNaN(a) /\ ~IsNaN(b) /\ a < b

FNeg(a) == IF IsNaN(a) THEN NaN ELSE 0 - a

FAdd(a, b) ==
    IF IsNaN(a) \/ IsNaN(b) THEN NaN
    ELSE IF a = PosInf THEN (IF b = NegInf THEN NaN ELSE PosInf)
    ELSE IF a = NegInf THEN (IF b = PosInf THEN NaN ELSE NegInf)
    ELSE IF ~Finite(b) THEN b
    ELSE a + b

FSub(a, b) == FAdd(a, FNeg(b))

\* floor(a * b / SCALE) for a, b >= 0, without leaving 32-bit integers
MulPos(a, b) ==
    LET a1 == a \div 1000
        a0 == a % 1000
        b1 == b \div 1000
        b0 == b % 1000
    IN  a1 * b1 + ((a1 * b0 + a0 * b1 + ((a0 * b0) \div 1000)) \div 1000)

FMul(a, b) ==
    IF IsNaN(a) \/ IsNaN(b) THEN NaN
    ELSE IF ~Finite(a) \/ ~Finite(b)
         THEN (IF a = 0 \/ b = 0 THEN NaN
               ELSE IF Sgn(a) * Sgn(b) > 0 THEN PosInf ELSE NegInf)
    ELSE Sgn(a) * Sgn(b) * MulPos(Abs(a), Abs(b))

\* the k leading decimal digits of r / b, for 0 <= r < b
RECURSIVE Frac(_, _, _)
Frac(r, b, k) ==
    IF k = 0 THEN 0
    ELSE LET d == (r * 10) \div b
             r2 == (r * 10) % b
         IN  d * (10 ^ (k - 1)) + Frac(r2, b, k - 1)

\* floor(a / b * SCALE) for a >= 0, b > 0 (long division)
DivPos(a, b) == (a \div b) * SCALE + Frac(a % b, b, 6)

FDiv(a, b) ==
    IF IsNaN(a) \/ IsNaN(b) THEN NaN
    ELSE IF ~Finite(a)
         THEN (IF ~Finite(b) THEN NaN
               ELSE IF (a > 0) = (b >= 0) THEN PosInf ELSE NegInf)
    ELSE IF ~Finite(b) THEN 0
    ELSE IF b = 0
         THEN (IF a = 0 THEN NaN ELSE IF a > 0 THEN PosInf ELSE NegInf)
    ELSE Sgn(a) * Sgn(b) * DivPos(Abs(a), Abs(b))

\* Exact squares and sums of squares, as pairs <<hi, lo>> standing for
\* hi * SCALE + lo with 0 <= lo < SCALE (in units of 1 / SCALE^2).
SqPair(d) ==
    LET d1 == d \div 1000
        d0 == d % 1000
        m == 2 * d1 * d0
        low == (m % 1000) * 1000 + d0 * d0
    IN  <<d1 * d1 + (m \div 1000) + (low \div SCALE), low % SCALE>>

AddPair(p, q) ==
    <<p[1] + q[1] + ((p[2] + q[2]) \div SCALE), (p[2] + q[2]) % SCALE>>

\* p / k for a small integer k > 0
DivPair(p, k) == <<p[1] \div k, ((p[1] % k) * SCALE + p[2]) \div k>>

LePair(p, q) == p[1] < q[1] \/ (p[1] = q[1] /\ p[2] <= q[2])

\* the largest r in lo..hi with r * r <= v (lo * lo <= v is given)
RECURSIVE SqrtSearch(_, _, _)
SqrtSearch(v, lo, hi) ==
    IF lo >= hi THEN lo
    ELSE LET mid == (lo + hi + 1) \div 2
         IN  IF LePair(SqPair(mid), v)
             THEN SqrtSearch(v, mid, hi)
             ELSE SqrtSearch(v, lo, mid - 1)

\* the square root of the pair v, truncated
SqrtPair(v) == SqrtSearch(v, 0, 46000 * 1000)

\* np.sqrt
FSqrt(x) ==
    IF IsNaN(x) \/ x < 0 THEN NaN
    ELSE IF x = PosInf THEN PosInf
    ELSE SqrtPair(<<x, 0>>)

\* x ** n for an integer n >= 0
RECURSIVE FPow(_, _)
FPow(x, n) ==
    IF n = 0 THEN ONE
    ELSE IF n % 2 = 0
         THEN LET h == FPow(x, n \div 2) IN FMul(h, h)
         ELSE FMul(x, FPow(x, n - 1))

\* DataFrame.round(4): to the nearest multiple of 1e-4, halves to even
Round4(x) ==
    IF ~Finite(x) THEN x
    ELSE LET q == Abs(x) \div 100
             r == Abs(x) % 100
             up == r > 50 \/ (r = 50 /\ q % 2 = 1)
         IN  Sgn(x) * 100 * (IF up THEN q + 1 ELSE q)

-----------------------------------------------------------------------------
(* pandas Series reductions *)

RECURSIVE SumSeq(_)
SumSeq(xs) == IF xs = <<>> THEN 0 ELSE Head(xs) + SumSeq(Tail(xs))

\* Series.mean(): NaN for an empty series
Mean(xs) ==
    IF Len(xs) = 0 THEN NaN
    ELSE LET t == SumSeq(xs) IN Sgn(t) * (Abs(t) \div Len(xs))

RECURSIVE SumSquares(_, _)
SumSquares(xs, m) ==
    IF xs = <<>> THEN <<0, 0>>
    ELSE AddPair(SqPair(Abs(Head(xs) - m)), SumSquares(Tail(xs), m))

\* Series.std(): sample standard deviation (ddof = 1), NaN below two rows
Std(xs) ==
    IF Len(xs) < 2 THEN NaN
    ELSE SqrtPair(DivPair(SumSquares(xs, Mean(xs)), Len(xs) - 1))

\* adj_close.pct_change().dropna() of one column: p[t] / p[t-1] - 1, the
\* first row (NaN) dropped
PctChange(prices) ==
    [i \in 1..(Len(prices) - 1) |-> DivPos(prices[i + 1], prices[i]) - ONE]

-----------------------------------------------------------------------------
(* Program constants *)

stocks == <<"MSFT", "QQQ", "INTC", "SPY">>
Tickers == {stocks[i] : i \in 1..Len(stocks)}
\* the column order of the downloaded table (tickers sorted by name)
Columns == <<"INTC", "MSFT", "QQQ", "SPY">>

trading_days == 252
\* the hardcoded default of get_risk_free_rate: 0.02
DefaultRate == (2 * SCALE) \div 100
\* the second script's risk_free_rate = 0.03
StandaloneRate == (3 * SCALE) \div 100

Labels == {"Excellent", "Very Good", "Good", "Positive but Below Average",
           "Poor (Negative)"}

\* the exceptions the ^IRX fetch can raise: the download failing, .iloc[-1]
\* on an empty table, float() of a value it does not accept
FetchErrors == {"ConnectionError", "IndexError", "TypeError"}

\* the builtin exceptions that are subclasses of Exception, among those above
ExceptionSubclasses == {"ConnectionError", "IndexError", "TypeError"}

\* Variant: a handler that names the network failure only.
CatchesConnectionOnly(e) == e = "ConnectionError"

\* "except Exception" catches e
Catches(e) == e \in ExceptionSubclasses

-----------------------------------------------------------------------------
(* calculate_sharpe_ratio *)

annual_returns(daily_returns) ==
    FSub(FPow(FAdd(ONE, Mean(daily_returns)), trading_days), ONE)

annual_volatility(daily_returns) ==
    FMul(Std(daily_returns), FSqrt(FromInt(trading_days)))

\* Variant: the rate added instead of subtracted.
excess_returns_added(annual_return, risk_free) == FAdd(annual_return, risk_free)

excess_returns(annual_return, risk_free) == FSub(annual_return, risk_free)

sharpe_of(excess_return, volatility) == FDiv(excess_return, volatility)

\* Steps 3 and 4 of calculate_sharpe_ratio for one asset: the result row
ResultRow(annual_return, volatility, risk_free) ==
    LET excess == excess_returns(annual_return, risk_free)
    IN  [Annual_Return |-> annual_return,
         Annual_Volatility |-> volatility,
         Excess_Return |-> excess,
         Sharpe_Ratio |-> sharpe_of(excess, volatility),
         Annual_Return_Pct |-> FMul(annual_return, FromInt(100)),
         Annual_Volatility_Pct |-> FMul(volatility, FromInt(100)),
         Excess_Return_Pct |-> FMul(excess, FromInt(100))]

calculate_sharpe_ratio(adj_close, risk_free) ==
    [s \in Tickers |->
        LET daily_returns == PctChange(adj_close[s])
        IN  ResultRow(annual_returns(daily_returns),
                      annual_volatility(daily_returns), risk_free)]

-----------------------------------------------------------------------------
(* The second, standalone script's ratio for one asset *)

standalone_sharpe(returns, risk_free) ==
    LET daily_rfr == Sgn(risk_free) * (Abs(risk_free) \div trading_days)
        excess_daily_return == [i \in 1..Len(returns) |-> returns[i] - daily_rfr]
        avg_excess_return == Mean(excess_daily_return)
        std_dev == Std(excess_daily_return)
    IN  FDiv(FMul(avg_excess_return, FromInt(trading_days)),
             FMul(std_dev, FSqrt(FromInt(trading_days))))

-----------------------------------------------------------------------------
(* Step 4: ordering and the interpretation cascade *)

\* row a is placed before row b by sort_values(ascending=False): larger
\* ratios first, NaN last
Before(a, b) == (~IsNaN(a) /\ IsNaN(b)) \/ FGt(a, b)

RECURSIVE InsertRow(_, _, _)
InsertRow(sorted, s, rows) ==
    IF sorted = <<>> THEN <<s>>
    ELSE IF Before(rows[s].Sharpe_Ratio, rows[Head(sorted)].Sharpe_Ratio)
         THEN <<s>> \o sorted
         ELSE <<Head(sorted)>> \o InsertRow(Tail(sorted), s, rows)

RECURSIVE SortFrom(_, _)
SortFrom(i, rows) ==
    IF i = 0 THEN <<>> ELSE InsertRow(SortFrom(i - 1, rows), Columns[i], rows)

\* the index of sharpe_results.sort_values('Sharpe_Ratio', ascending=False)
sort_values(rows) == SortFrom(Len(Columns), rows)

\* Variant: the thresholds compared with >= instead of >.
InterpretationInclusive(sharpe_val) ==
    IF ~IsNaN(sharpe_val) /\ sharpe_val >= FromInt(3) THEN "Excellent"
    ELSE IF ~IsNaN(sharpe_val) /\ sharpe_val >= FromInt(2) THEN "Very Good"
    ELSE IF ~IsNaN(sharpe_val) /\ sharpe_val >= FromInt(1) THEN "Good"
    ELSE IF FGt(sharpe_val, 0) THEN "Positive but Below Average"
    ELSE "Poor (Negative)"

Interpretation(sharpe_val) ==
    IF FGt(sharpe_val, FromInt(3)) THEN "Excellent"
    ELSE IF FGt(sharpe_val, FromInt(2)) THEN "Very Good"
    ELSE IF FGt(sharpe_val, FromInt(1)) THEN "Good"
    ELSE IF FGt(sharpe_val, 0) THEN "Positive but Below Average"
    ELSE "Poor (Negative)"

Line(kind, stock, text) == [kind |-> kind, stock |-> stock, text |-> text]

\* the lines the display loop prints for the assets order[i..]
RECURSIVE DisplayLines(_, _, _)
DisplayLines(order, i, rows) ==
    IF i > Len(order) THEN <<>>
    ELSE <<Line("stock", order[i], ""),
           Line("performance", order[i],
                Interpretation(rows[order[i]].Sharpe_Ratio))>>
         \o DisplayLines(order, i + 1, rows)

\* sharpe_results_sorted.round(4)
RoundRow(row) == [f \in DOMAIN row |-> Round4(row[f])]

-----------------------------------------------------------------------------
(* The data provider *)

\* Adjusted-close histories the provider may hold for one ticker.
PricePaths == {<<100, 50, 75, 75>>, <<100, 100, 100, 100>>,
               <<1000, 997, 1002, 1001>>, <<1000, 1006, 1001, 1002>>}

\* The price tables: every ticker has the same n dated rows.
Markets ==
    UNION {[Tickers -> {SubSeq(p, 1, n) : p \in PricePaths}] : n \in 1..MaxRows}

\* What yf.download("^IRX", period="1d") may return: no row or one row whose
\* Close is a percentage or NaN; convertible tells whether float() accepts
\* the extracted value.
TreasuryTables ==
    {[Close |-> c, convertible |-> b] :
        c \in {<<>>} \cup {<<FromInt(k)>> : k \in 0..MaxClose} \cup {<<NaN>>},
        b \in BOOLEAN}

-----------------------------------------------------------------------------
(* State *)

VARIABLES
    pc,                     \* the cell or statement about to run
    market,                 \* the provider's price history
    df,                     \* the downloaded 'Adj Close' table
    treasury,               \* get_risk_free_rate's downloaded table
    exc,                    \* the exception being handled or propagated
    irx_downloads,          \* calls of yf.download("^IRX") so far
    risk_free_rate,
    sharpe_results,
    sharpe_results_sorted,  \* its index, in sorted order
    summary_df,
    best_worst,             \* <<best_stock, worst_stock>>
    csv,                    \* the rows of sharpe_ratio_analysis.csv
    sharpe_ratios,          \* the second script's dictionary
    out                     \* the printed lines

vars == <<pc, market, df, treasury, exc, irx_downloads, risk_free_rate,
          sharpe_results, sharpe_results_sorted, summary_df, best_worst, csv,
          sharpe_ratios, out>>

NoTable == [s \in {} |-> 0]
NoTreasury == [Close |-> <<>>, convertible |-> TRUE]

Unset ==
    /\ df = NoTable
    /\ treasury = NoTreasury
    /\ exc = ""
    /\ irx_downloads = 0
    /\ risk_free_rate = NaN
    /\ sharpe_results = NoTable
    /\ sharpe_results_sorted = <<>>
    /\ summary_df = NoTable
    /\ best_worst = <<>>
    /\ csv = <<>>
    /\ sharpe_ratios = NoTable
    /\ out = <<>>

Init ==
    /\ pc = "step1"
    /\ market \in Markets
    /\ Unset

-----------------------------------------------------------------------------
(* Step 1: download the price history *)

Step1Download ==
    /\ pc = "step1"
    /\ df' = market
    /\ out' = Append(out, Line("print", "", "Downloading stock data..."))
    /\ pc' = "step2"
    /\ UNCHANGED <<market, treasury, exc, irx_downloads, risk_free_rate,
                   sharpe_results, sharpe_results_sorted, summary_df,
                   best_worst, csv, sharpe_ratios>>

\* Variant: the failure swallowed, the run going on without a table.
Step1RaisesCaught ==
    /\ pc = "step1"
    /\ out' = Append(out, Line("print", "", "Downloading stock data..."))
    /\ pc' = "step2"
    /\ UNCHANGED <<market, df, treasury, exc, irx_downloads, risk_free_rate,
                   sharpe_results, sharpe_results_sorted, summary_df,
                   best_worst, csv, sharpe_ratios>>

\* yf.download raises: nothing catches it, the run ends with the traceback
Step1Raises ==
    /\ pc = "step1"
    /\ out' = Append(out, Line("print", "", "Downloading stock data..."))
    /\ exc' = "ConnectionError"
    /\ pc' = "crashed_step1"
    /\ UNCHANGED <<market, df, treasury, irx_downloads, risk_free_rate,
                   sharpe_results, sharpe_results_sorted, summary_df,
                   best_worst, csv, sharpe_ratios>>

-----------------------------------------------------------------------------
(* Step 2: get_risk_free_rate() and the cell around it *)

\* try: treasury = yf.download("^IRX", ...)
GrfDownload ==
    /\ pc = "step2"
    /\ irx_downloads' = irx_downloads + 1
    /\ \/ /\ treasury' \in TreasuryTables
          /\ exc' = exc
          /\ pc' = "grf_extract"
       \/ /\ treasury' = treasury
          /\ exc' = "ConnectionError"
          /\ pc' = "grf_except"
    /\ UNCHANGED <<market, df, risk_free_rate, sharpe_results,
                   sharpe_results_sorted, summary_df, best_worst, csv,
                   sharpe_ratios, out>>

\* current_rate = float(treasury['Close'].iloc[-1]) / 100; return current_rate
GrfExtract ==
    /\ pc = "grf_extract"
    /\ IF Len(treasury.Close) = 0
       THEN /\ exc' = "IndexError"
            /\ pc' = "grf_except"
            /\ risk_free_rate' = risk_free_rate
       ELSE IF ~treasury.convertible
       THEN /\ exc' = "TypeError"
            /\ pc' = "grf_except"
            /\ risk_free_rate' = risk_free_rate
       ELSE /\ risk_free_rate' =
                   FDiv(treasury.Close[Len(treasury.Close)], FromInt(100))
            /\ exc' = exc
            /\ pc' = "step2_print"
    /\ UNCHANGED <<market, df, treasury, irx_downloads, sharpe_results,
                   sharpe_results_sorted, summary_df, best_worst, csv,
                   sharpe_ratios, out>>

\* Variant: the handler trying the download again.
GrfExceptRetry ==
    /\ pc = "grf_except"
    /\ out' = Append(out, Line("print", exc,
                              "Could not fetch current risk-free rate"))
    /\ exc' = ""
    /\ pc' = "step2"
    /\ UNCHANGED <<market, df, treasury, irx_downloads, risk_free_rate,
                   sharpe_results, sharpe_results_sorted, summary_df,
                   best_worst, csv, sharpe_ratios>>

\* except Exception as e: print("Could not fetch ...")
\* An exception the clause does not catch leaves the call and ends the run.
GrfExcept ==
    /\ pc = "grf_except"
    /\ IF Catches(exc)
       THEN /\ out' = Append(out, Line("print", exc,
                                      "Could not fetch current risk-free rate"))
            /\ exc' = ""
            /\ pc' = "grf_return_default"
       ELSE /\ out' = out
            /\ exc' = exc
            /\ pc' = "crashed_step2"
    /\ UNCHANGED <<market, df, treasury, irx_downloads, risk_free_rate,
                   sharpe_results, sharpe_results_sorted, summary_df,
                   best_worst, csv, sharpe_ratios>>

\* return 0.02 (in the except clause)
GrfReturnDefault ==
    /\ pc = "grf_return_default"
    /\ risk_free_rate' = DefaultRate
    /\ pc' = "step2_print"
    /\ UNCHANGED <<market, df, treasury, exc, irx_downloads, sharpe_results,
                   sharpe_results_sorted, summary_df, best_worst, csv,
                   sharpe_ratios, out>>

\* print("Using risk-free rate ..."); the None / NaN alternative
Step2Print ==
    /\ pc = "step2_print"
    /\ IF IsNaN(risk_free_rate)
       THEN /\ risk_free_rate' = DefaultRate
            /\ out' = out \o <<Line("print", "", "Using risk-free rate"),
                               Line("print", "", "Using default risk-free rate")>>
       ELSE /\ risk_free_rate' = risk_free_rate
            /\ out' = Append(out, Line("print", "", "Using risk-free rate"))
    /\ pc' = "step3"
    /\ UNCHANGED <<market, df, treasury, exc, irx_downloads, sharpe_results,
                   sharpe_results_sorted, summary_df, best_worst, csv,
                   sharpe_ratios>>

-----------------------------------------------------------------------------
(* Steps 3 to 6 *)

Step3Calculate ==
    /\ pc = "step3"
    /\ out' = Append(out, Line("print", "", "Calculating Sharpe ratios..."))
    /\ sharpe_results' = calculate_sharpe_ratio(df, risk_free_rate)
    /\ pc' = "step4"
    /\ UNCHANGED <<market, df, treasury, exc, irx_downloads, risk_free_rate,
                   sharpe_results_sorted, summary_df, best_worst, csv,
                   sharpe_ratios>>

Step4Display ==
    /\ pc = "step4"
    /\ sharpe_results_sorted' = sort_values(sharpe_results)
    /\ out' = out \o <<Line("print", "", "SHARPE RATIO ANALYSIS RESULTS")>>
                  \o DisplayLines(sharpe_results_sorted', 1, sharpe_results)
    /\ pc' = "step5"
    /\ UNCHANGED <<market, df, treasury, exc, irx_downloads, risk_free_rate,
                   sharpe_results, summary_df, best_worst, csv, sharpe_ratios>>

Step5Summary ==
    /\ pc = "step5"
    /\ summary_df' =
          [s \in Tickers |->
              [Annual_Return |-> Round4(sharpe_results[s].Annual_Return_Pct),
               Volatility |-> Round4(sharpe_results[s].Annual_Volatility_Pct),
               Sharpe_Ratio |-> Round4(sharpe_results[s].Sharpe_Ratio)]]
    /\ out' = Append(out, Line("print", "", "SUMMARY TABLE"))
    /\ pc' = "step6"
    /\ UNCHANGED <<market, df, treasury, exc, irx_downloads, risk_free_rate,
                   sharpe_results, sharpe_results_sorted, best_worst, csv,
                   sharpe_ratios>>

Step6Save ==
    /\ pc = "step6"
    /\ best_worst' = <<sharpe_results_sorted[1],
                       sharpe_results_sorted[Len(sharpe_results_sorted)]>>
    /\ csv' = [i \in 1..Len(sharpe_results_sorted) |->
                  RoundRow(sharpe_results[sharpe_results_sorted[i]])]
    /\ out' = out \o <<Line("print", sharpe_results_sorted[1], "Best"),
                       Line("print",
                            sharpe_results_sorted[Len(sharpe_results_sorted)],
                            "Worst"),
                       Line("print", "", "Results saved")>>
    /\ pc' = "standalone"
    /\ UNCHANGED <<market, df, treasury, exc, irx_downloads, risk_free_rate,
                   sharpe_results, sharpe_results_sorted, summary_df,
                   sharpe_ratios>>

-----------------------------------------------------------------------------
(* The last cell: the second, standalone script *)

StandaloneScript ==
    /\ pc = "standalone"
    /\ df' = market
    /\ risk_free_rate' = StandaloneRate
    /\ sharpe_ratios' =
          [s \in Tickers |-> standalone_sharpe(PctChange(market[s]),
                                               StandaloneRate)]
    /\ out' = Append(out, Line("print", "", "Sharpe Ratio"))
    /\ pc' = "done"
    /\ UNCHANGED <<market, treasury, exc, irx_downloads, sharpe_results,
                   sharpe_results_sorted, summary_df, best_worst, csv>>

StandaloneRaises ==
    /\ pc = "standalone"
    /\ exc' = "ConnectionError"
    /\ pc' = "crashed_standalone"
    /\ UNCHANGED <<market, df, treasury, irx_downloads, risk_free_rate,
                   sharpe_results, sharpe_results_sorted, summary_df,
                   best_worst, csv, sharpe_ratios, out>>

Next ==
    \/ Step1Download
    \/ Step1Raises
    \/ GrfDownload
    \/ GrfExtract
    \/ GrfExcept
    \/ GrfReturnDefault
    \/ Step2Print
    \/ Step3Calculate
    \/ Step4Display
    \/ Step5Summary
    \/ Step6Save
    \/ StandaloneScript
    \/ StandaloneRaises

Spec == Init /\ [][Next]_vars

-----------------------------------------------------------------------------
(* The display cells on a table of result rows drawn from a grid *)

\* Sharpe ratios -0.5, 0, 0.5, ..., MaxHalf / 2, and NaN
Grid == {(k * SCALE) \div 2 : k \in (0 - 1)..MaxHalf} \cup {NaN}

\* Result rows of unit volatility whose ratio is the grid value: what
\* calculate_sharpe_ratio returns for such annual returns
InitLabel ==
    /\ pc = "step4"
    /\ market = NoTable
    /\ df = NoTable
    /\ treasury = NoTreasury
    /\ exc = ""
    /\ irx_downloads = 1
    /\ risk_free_rate = DefaultRate
    /\ \E g \in [Tickers -> Grid] :
          sharpe_results =
              [s \in Tickers |-> ResultRow(FAdd(g[s], DefaultRate), ONE,
                                           DefaultRate)]
    /\ sharpe_results_sorted = <<>>
    /\ summary_df = NoTable
    /\ best_worst = <<>>
    /\ csv = <<>>
    /\ sharpe_ratios = NoTable
    /\ out = <<>>

NextLabel ==
    \/ Step4Display
    \/ Step5Summary
    \/ Step6Save

SpecLabel == InitLabel /\ [][NextLabel]_vars

-----------------------------------------------------------------------------
(* Properties *)

\* the fetch of get_risk_free_rate failed: nothing was downloaded, the table
\* had no row, or float() refused the value
FetchFailed == Len(treasury.Close) = 0 \/ ~treasury.convertible

\* the call of get_risk_free_rate has ended
CallEnded == pc \in {"step2_print", "step3", "step4", "step5", "step6",
                     "standalone", "done", "crashed_standalone"}

\* sharpe_results holds the rows computed with risk_free_rate
RowsCurrent == pc \in {"step4", "step5", "step6", "standalone"}

Displayed == pc \in {"step5", "step6", "standalone", "done",
                     "crashed_standalone"}

FetchMessages ==
    Cardinality({i \in 1..Len(out) :
                    out[i].text = "Could not fetch current risk-free rate"})

\* the labels the display printed for asset s
PrintedLabels(s) ==
    {out[i].text : i \in {j \in 1..Len(out) :
                            out[j].kind = "performance" /\ out[j].stock = s}}

PerformanceLines(s) ==
    Cardinality({i \in 1..Len(out) :
                    out[i].kind = "performance" /\ out[i].stock = s})

\* C1: whenever the ^IRX download or the extraction of its last Close raises,
\* get_risk_free_rate returns 0.02 and returns normally: the exception never
\* leaves the call.
C1_FallbackOnAnyFailure ==
    /\ pc # "crashed_step2"
    /\ (pc = "grf_except" => exc \in FetchErrors)
    /\ (pc = "step2_print" /\ FetchFailed) =>
           (risk_free_rate = DefaultRate /\ exc = "")

C1_Witness ==
    /\ pc = "step2_print"
    /\ irx_downloads = 1
    /\ Len(treasury.Close) = 1
    /\ ~treasury.convertible
    /\ risk_free_rate = DefaultRate

\* C2: in every call of get_risk_free_rate the download is attempted exactly
\* once; a failure prints exactly one message, then the default is returned,
\* with no second attempt.
C2_NoRetry ==
    /\ irx_downloads <= 1
    /\ (pc \in {"grf_extract", "grf_except"} => irx_downloads = 1)
    /\ (pc = "grf_return_default" => irx_downloads = 1 /\ FetchMessages = 1)
    /\ CallEnded =>
           /\ irx_downloads = 1
           /\ FetchMessages = (IF FetchFailed THEN 1 ELSE 0)

C2_Witness ==
    /\ pc = "step2_print"
    /\ FetchFailed
    /\ irx_downloads = 1
    /\ FetchMessages = 1
    /\ risk_free_rate = DefaultRate

\* C3: in every row calculate_sharpe_ratio returns, Excess_Return is
\* Annual_Return minus the risk-free rate and Sharpe_Ratio is Excess_Return
\* divided by Annual_Volatility.
C3_RowFormula ==
    RowsCurrent =>
        \A s \in Tickers :
            /\ sharpe_results[s].Excess_Return =
                   FSub(sharpe_results[s].Annual_Return, risk_free_rate)
            /\ sharpe_results[s].Sharpe_Ratio =
                   FDiv(sharpe_results[s].Excess_Return,
                        sharpe_results[s].Annual_Volatility)

C3_Witness ==
    /\ pc = "step4"
    /\ risk_free_rate = StandaloneRate
    /\ \E s \in Tickers :
          /\ Finite(sharpe_results[s].Sharpe_Ratio)
          /\ sharpe_results[s].Annual_Volatility > 0
          /\ sharpe_results[s].Excess_Return > 0
          /\ sharpe_results[s].Excess_Return < sharpe_results[s].Annual_Return

\* The documented annualized ratio: (mean daily excess return x 252) /
\* (standard deviation of daily return x sqrt(252)), the daily excess return
\* being the daily return minus the annual rate / 252.
DocumentedSharpe(returns, risk_free) ==
    LET daily_rate == Sgn(risk_free) * (Abs(risk_free) \div 252)
        excess == [i \in 1..Len(returns) |-> returns[i] - daily_rate]
    IN  FDiv(FMul(Mean(excess), FromInt(252)),
             FMul(Std(returns), FSqrt(FromInt(252))))

\* equal floats, up to 0.01 for rounding
Agree(a, b) ==
    \/ a = b
    \/ Finite(a) /\ Finite(b) /\ Abs(a - b) <= SCALE \div 100

\* C4: the ratio calculate_sharpe_ratio reports and the ratio the second
\* script computes both equal the documented annualized ratio, so the two
\* agree for the same returns and the same rate.
C4_AnnualizedFormula ==
    /\ RowsCurrent =>
           \A s \in Tickers :
               Agree(sharpe_results[s].Sharpe_Ratio,
                     DocumentedSharpe(PctChange(df[s]), risk_free_rate))
    /\ pc = "done" =>
           \A s \in Tickers :
               /\ Agree(sharpe_ratios[s],
                        DocumentedSharpe(PctChange(df[s]), StandaloneRate))
               /\ (/\ Finite(sharpe_results[s].Sharpe_Ratio)
                   /\ FSub(sharpe_results[s].Annual_Return,
                           sharpe_results[s].Excess_Return) = StandaloneRate)
                      => Agree(sharpe_results[s].Sharpe_Ratio, sharpe_ratios[s])

\* The second script alone does follow the documented formula.
StandaloneFollowsFormula ==
    pc = "done" =>
        \A s \in Tickers :
            Agree(sharpe_ratios[s],
                  DocumentedSharpe(PctChange(df[s]), StandaloneRate))

\* C5: an asset with a ratio (not NaN) is labelled "Poor (Negative)" exactly
\* when its Sharpe ratio is below 0.
C5_PoorIffNegative ==
    Displayed =>
        \A s \in Tickers :
            ~IsNaN(sharpe_results[s].Sharpe_Ratio) =>
                (("Poor (Negative)" \in PrintedLabels(s))
                     <=> FLt(sharpe_results[s].Sharpe_Ratio, 0))

\* C6: every asset gets exactly one label; it is "Excellent" exactly when the
\* ratio is > 3.0, "Very Good" exactly when > 2.0 and not > 3.0, "Good"
\* exactly when > 1.0 and not > 2.0; ratios of exactly 1.0, 2.0 and 3.0 fall
\* in the lower band.
C6_StrictThresholds ==
    Displayed =>
        \A s \in Tickers :
            LET v == sharpe_results[s].Sharpe_Ratio
                L == PrintedLabels(s)
            IN  /\ PerformanceLines(s) = 1
                /\ Cardinality(L) = 1
                /\ L \subseteq Labels
                /\ ("Excellent" \in L) <=> FGt(v, FromInt(3))
                /\ ("Very Good" \in L) <=>
                       (FGt(v, FromInt(2)) /\ ~FGt(v, FromInt(3)))
                /\ ("Good" \in L) <=>
                       (FGt(v, FromInt(1)) /\ ~FGt(v, FromInt(2)))
                /\ (v = FromInt(1)) => L = {"Positive but Below Average"}
                /\ (v = FromInt(2)) => L = {"Good"}
                /\ (v = FromInt(3)) => L = {"Very Good"}

C6_Witness ==
    /\ pc = "step5"
    /\ sharpe_results["MSFT"].Sharpe_Ratio = FromInt(3)
    /\ PrintedLabels("MSFT") = {"Very Good"}
    /\ sharpe_results["QQQ"].Sharpe_Ratio = FromInt(2)
    /\ PrintedLabels("QQQ") = {"Good"}
    /\ sharpe_results["INTC"].Sharpe_Ratio = FromInt(1)
    /\ PrintedLabels("INTC") = {"Positive but Below Average"}
    /\ FGt(sharpe_results["SPY"].Sharpe_Ratio, FromInt(3))
    /\ PrintedLabels("SPY") = {"Excellent"}

\* the price-history download of Step 1 failed
StockDownloadFailed == pc # "step1" /\ df = NoTable

\* C7: a failure of the price-history download is not caught: the run stops
\* there; the rate is not fetched, no ratio is computed, nothing more is
\* printed and sharpe_ratio_analysis.csv is not written.
C7_StockFailureStopsRun ==
    StockDownloadFailed =>
        /\ pc = "crashed_step1"
        /\ exc = "ConnectionError"
        /\ irx_downloads = 0
        /\ sharpe_results = NoTable
        /\ sharpe_results_sorted = <<>>
        /\ summary_df = NoTable
        /\ csv = <<>>
        /\ out = <<Line("print", "", "Downloading stock data...")>>

C7_Witness ==
    /\ pc = "crashed_step1"
    /\ df = NoTable
    /\ csv = <<>>

=============================================================================
